---- MODULE Spec2Model ----
(***************************************************************************)
(* NeuroSync: the Streamlit session of app.py with its in-memory user data *)
(* store (helpers.py), the privacy helpers (privacy.py), the wellness      *)
(* score (data_processing.py), the stress heuristic (ml_models.py) and the *)
(* LLM-backed operations (ai_coaching.py, openai_helper.py,                *)
(* openai_integration.py).                                                 *)
(*                                                                         *)
(* Python dictionaries are functions whose DOMAIN is the set of keys that  *)
(* are present; d.get(k, default) is Get(d, k, default).  Python's None is *)
(* the string None, which is no username, key or value of the model.       *)
(***************************************************************************)
EXTENDS Integers, Sequences, FiniteSets, TLC

VARIABLES
    \* ---- st.session_state (app.py) ----
    session_keys,        \* the keys present in st.session_state
    user_authenticated,
    user_id,
    journal_entries,
    wearable_data,
    coping_strategies,
    coaching_history,
    zen_garden_data,
    user_data_store,     \* st.session_state.user_data_store: user id -> record
    last_action,         \* history: the handler that ran last
    logout_data,         \* history: who logged out last, and with what data
    \* ---- one call of load_user_data / save_user_data (helpers.py) ----
    store_call,
    \* ---- calculate_wellness_score(data) (data_processing.py) ----
    processed_data,      \* the record handed to calculate_wellness_score
    wellness,            \* [pc |-> "input"] or [pc |-> "done", score |-> ...]
    \* ---- predict_stress_level(latest_journal, latest_wearable) (ml_models.py) ----
    latest_journal,
    latest_wearable,
    prediction,          \* [pc |-> "input"] or [pc |-> "done", ...]
    \* ---- one call of an LLM-backed operation ----
    llm_call,            \* the operation called last and how it ended
    stdout,              \* the lines printed so far
    \* ---- the dictionaries privacy.py works on ----
    heap,                \* reference -> dictionary
    privacy_call,        \* the privacy.py call made last
    \* ---- one call of a statistics function (helpers, zen_garden, ml_models) ----
    streak_call,         \* get_streak_days(journal_entries)
    meditation_call,     \* get_meditation_stats(garden_data)
    mood_call            \* analyze_mood_patterns(journal_entries, wearable_data)

session_vars == <<session_keys, user_authenticated, user_id, journal_entries,
                  wearable_data, coping_strategies, coaching_history,
                  zen_garden_data, user_data_store, last_action, logout_data>>

wellness_vars == <<processed_data, wellness>>
stress_vars == <<latest_journal, latest_wearable, prediction>>
llm_vars == <<llm_call, stdout>>
privacy_vars == <<heap, privacy_call>>
stats_vars == <<streak_call, meditation_call, mood_call>>
pure_vars == <<wellness_vars, stress_vars, llm_vars, privacy_vars, stats_vars>>

vars == <<session_vars, store_call, pure_vars>>

None == "None"

EmptyDict == [k \in {} |-> None]

\* Optional[dict]: None is Nothing, a dictionary d is Some(d)
Nothing == <<>>
Some(d) == <<d>>
\* Python truthiness of a dictionary or None
Truthy(o) == o # Nothing /\ DOMAIN o[1] # {}

\* d.get(k, default)
Get(d, k, default) == IF k \in DOMAIN d THEN d[k] ELSE default

\* {**d, k: v}
Put(d, k, v) == [x \in DOMAIN d \cup {k} |-> IF x = k THEN v ELSE d[x]]

\* d without the key k
Del(d, k) == [x \in DOMAIN d \ {k} |-> d[x]]

(***************************************************************************)
(* Bounds of the model.                                                    *)
(***************************************************************************)
MaxItems == 2        \* entries a handler may add to one session list

Usernames == {"", "alice", "bob"}      \* what the Username box may hold
Passwords == {"", "pw"}                \* what the Password box may hold
JournalContents == {"", "c1", "c2"}    \* what the journal text area may hold
MeditationDurations == {5, 10}         \* two of the Duration choices
FocusChoices == {<<>>, <<"Stress">>}   \* what the focus multiselect may hold

Today == "today"     \* datetime.datetime.now().strftime("%Y-%m-%d")

(***************************************************************************)
(* helpers.py                                                              *)
(***************************************************************************)
welcome_strategy ==
    [date |-> Today, focus_areas |-> <<"Getting Started">>, strategy |-> "welcome"]

create_sample_data(uid) ==
    [journal_entries |-> <<>>, wearable_data |-> <<>>,
     coping_strategies |-> <<welcome_strategy>>]

\* load_user_data(user_id) on the store `store` (present in session_state
\* iff "user_data_store" \in keys): the value returned, and the store after.
\* A value that is a dictionary or None is Some(d) or Nothing.
load_user_data(store, keys, uid) ==
    LET s0 == IF "user_data_store" \in keys THEN store ELSE EmptyDict
    IN  IF uid \in DOMAIN s0
        THEN [ret |-> Some(s0[uid]), store |-> s0,
              keys |-> keys \cup {"user_data_store"}]
        ELSE [ret |-> Some(create_sample_data(uid)),
              store |-> Put(s0, uid, create_sample_data(uid)),
              keys |-> keys \cup {"user_data_store"}]

save_user_data_dropped(store, keys, uid, data) ==
    LET s0 == IF "user_data_store" \in keys THEN store ELSE EmptyDict
    IN  [ret |-> TRUE, store |-> s0, keys |-> keys \cup {"user_data_store"}]

save_user_data(store, keys, uid, data) ==
    LET s0 == IF "user_data_store" \in keys THEN store ELSE EmptyDict
    IN  [ret   |-> TRUE,
         store |-> Put(s0, uid, data),
         keys  |-> keys \cup {"user_data_store"}]

(***************************************************************************)
(* zen_garden.py                                                           *)
(***************************************************************************)
create_default_garden ==
    [sand_pattern |-> "waves", last_modified |-> Today,
     meditation_sessions |-> <<>>]

record_meditation_session(garden_data, duration_minutes) ==
    LET g0 == IF "meditation_sessions" \in DOMAIN garden_data
              THEN garden_data
              ELSE Put(garden_data, "meditation_sessions", <<>>)
        new_session == [date |-> Today, duration_minutes |-> duration_minutes,
                        notes |-> ""]
    IN  [g0 EXCEPT !["meditation_sessions"] = Append(@, new_session),
                   !["last_modified"] = Today]

(***************************************************************************)
(* app.py: the session                                                     *)
(***************************************************************************)
\* The keys the initialisation block (lines 177-193) sets on every run.
InitKeys == {"journal_entries", "wearable_data", "coping_strategies",
             "coaching_history", "coaching_sessions", "zen_garden_data",
             "user_authenticated", "user_id"}

NoLogout == [user |-> None]

SessionInit ==
    /\ session_keys = InitKeys
    /\ user_authenticated = FALSE
    /\ user_id = None
    /\ journal_entries = <<>>
    /\ wearable_data = <<>>
    /\ coping_strategies = <<>>
    /\ coaching_history = <<>>
    /\ zen_garden_data = create_default_garden
    /\ user_data_store = EmptyDict
    /\ last_action = "init"
    /\ logout_data = NoLogout

\* Python truthiness of a str or None
TruthyStr(s) == s # None /\ s # ""

\* The dictionaries the handlers hand to save_user_data.
UserData3 ==
    [journal_entries |-> journal_entries', wearable_data |-> wearable_data',
     coping_strategies |-> coping_strategies']
UserData4 ==
    [journal_entries |-> journal_entries', wearable_data |-> wearable_data',
     coping_strategies |-> coping_strategies',
     coaching_history |-> coaching_history']
UserData5 ==
    [journal_entries |-> journal_entries', wearable_data |-> wearable_data',
     coping_strategies |-> coping_strategies',
     coaching_history |-> coaching_history',
     zen_garden_data |-> zen_garden_data']

\* save_user_data(st.session_state.user_id, data) as a handler's last step
SaveSession(data) ==
    LET r == save_user_data(user_data_store, session_keys, user_id, data)
    IN  /\ user_data_store' = r.store
        /\ session_keys' = r.keys

\* The Login button with `if username:` as its test
Login_username_only(username, password) ==
    /\ ~user_authenticated
    /\ IF TruthyStr(username)
       THEN LET r == load_user_data(user_data_store, session_keys, username)
            IN  /\ user_authenticated' = TRUE
                /\ user_id' = username
                /\ user_data_store' = r.store
                /\ session_keys' = r.keys
                /\ IF Truthy(r.ret)
                   THEN /\ journal_entries' = Get(r.ret[1], "journal_entries", <<>>)
                        /\ wearable_data' = Get(r.ret[1], "wearable_data", <<>>)
                        /\ coping_strategies' = Get(r.ret[1], "coping_strategies", <<>>)
                        /\ coaching_history' = Get(r.ret[1], "coaching_history", <<>>)
                   ELSE UNCHANGED <<journal_entries, wearable_data,
                                    coping_strategies, coaching_history>>
                /\ last_action' = "login"
                /\ UNCHANGED <<zen_garden_data, logout_data>>
       ELSE /\ last_action' = "login_error"
            /\ UNCHANGED <<session_keys, user_authenticated, user_id,
                           journal_entries, wearable_data, coping_strategies,
                           coaching_history, zen_garden_data, user_data_store,
                           logout_data>>
    /\ UNCHANGED <<store_call, pure_vars>>

\* The Login button (lines 225-241)
Login(username, password) ==
    /\ ~user_authenticated
    /\ IF TruthyStr(username) /\ TruthyStr(password)
       THEN LET r == load_user_data(user_data_store, session_keys, username)
            IN  /\ user_authenticated' = TRUE
                /\ user_id' = username
                /\ user_data_store' = r.store
                /\ session_keys' = r.keys
                /\ IF Truthy(r.ret)
                   THEN /\ journal_entries' = Get(r.ret[1], "journal_entries", <<>>)
                        /\ wearable_data' = Get(r.ret[1], "wearable_data", <<>>)
                        /\ coping_strategies' = Get(r.ret[1], "coping_strategies", <<>>)
                        /\ coaching_history' = Get(r.ret[1], "coaching_history", <<>>)
                   ELSE UNCHANGED <<journal_entries, wearable_data,
                                    coping_strategies, coaching_history>>
                /\ last_action' = "login"
                /\ UNCHANGED <<zen_garden_data, logout_data>>
       ELSE /\ last_action' = "login_error"
            /\ UNCHANGED <<session_keys, user_authenticated, user_id,
                           journal_entries, wearable_data, coping_strategies,
                           coaching_history, zen_garden_data, user_data_store,
                           logout_data>>
    /\ UNCHANGED <<store_call, pure_vars>>

\* The Logout button (lines 317-332): save, delete every key of the session
\* state, rerun (the initialisation block then sets the defaults again).
Logout ==
    /\ user_authenticated
    /\ LET data == [journal_entries |-> journal_entries,
                    wearable_data |-> wearable_data,
                    coping_strategies |-> coping_strategies,
                    coaching_history |-> coaching_history,
                    zen_garden_data |-> zen_garden_data]
           saved == IF TruthyStr(user_id)
                    THEN save_user_data(user_data_store, session_keys, user_id, data)
                    ELSE [ret |-> TRUE, store |-> user_data_store,
                          keys |-> session_keys]
           \* for key in list(st.session_state.keys()): del st.session_state[key]
           left == saved.keys \ saved.keys
       IN  /\ logout_data' = [user |-> user_id, data |-> data]
           \* the rerun's initialisation block
           /\ session_keys' = left \cup InitKeys
           /\ user_data_store' = IF "user_data_store" \in left
                                 THEN saved.store ELSE EmptyDict
    /\ user_authenticated' = FALSE
    /\ user_id' = None
    /\ journal_entries' = <<>>
    /\ wearable_data' = <<>>
    /\ coping_strategies' = <<>>
    /\ coaching_history' = <<>>
    /\ zen_garden_data' = create_default_garden
    /\ last_action' = "logout"
    /\ UNCHANGED <<store_call, pure_vars>>

\* data_processing.process_journal_entry followed by privacy.encrypt_data
\* (lines 540-555), as far as the session keeps it
StoredEntry(content) ==
    [date |-> Today, content |-> content, sentiment |-> "sentiment",
     _would_be_encrypted |-> TRUE]

\* "Save Journal Entry" outside the `if user_authenticated:` block
SaveJournalEntry_unguarded(entry_content) ==
    /\ Len(journal_entries) < MaxItems
    /\ IF TruthyStr(entry_content)
       THEN /\ journal_entries' = Append(journal_entries, StoredEntry(entry_content))
            /\ UNCHANGED <<wearable_data, coping_strategies>>
            /\ SaveSession(UserData3)
       ELSE UNCHANGED <<journal_entries, wearable_data, coping_strategies,
                        user_data_store, session_keys>>
    /\ last_action' = "main"
    /\ logout_data' = NoLogout
    /\ UNCHANGED <<user_authenticated, user_id, coaching_history,
                   zen_garden_data, store_call, pure_vars>>

\* "Save Journal Entry" (lines 537-570)
SaveJournalEntry(entry_content) ==
    /\ user_authenticated
    /\ Len(journal_entries) < MaxItems
    /\ IF TruthyStr(entry_content)
       THEN /\ journal_entries' = Append(journal_entries, StoredEntry(entry_content))
            /\ UNCHANGED <<wearable_data, coping_strategies>>
            /\ SaveSession(UserData3)
       ELSE UNCHANGED <<journal_entries, wearable_data, coping_strategies,
                        user_data_store, session_keys>>
    /\ last_action' = "main"
    /\ logout_data' = NoLogout
    /\ UNCHANGED <<user_authenticated, user_id, coaching_history,
                   zen_garden_data, store_call, pure_vars>>

DaysImported == 7

\* process_wearable_data(get_mock_wearable_data(date, ...)) for the day i days ago
MockDay(i) == [date |-> <<Today, i>>]

\* "Connect and Import Data" (lines 766-790)
ImportWearableData ==
    /\ user_authenticated
    /\ Len(wearable_data) < MaxItems * DaysImported
    /\ wearable_data' = wearable_data \o [i \in 1..DaysImported |-> MockDay(i - 1)]
    /\ UNCHANGED <<journal_entries, coping_strategies>>
    /\ SaveSession(UserData3)
    /\ last_action' = "main"
    /\ logout_data' = NoLogout
    /\ UNCHANGED <<user_authenticated, user_id, coaching_history,
                   zen_garden_data, store_call, pure_vars>>

\* "Generate Strategies" (lines 1467-1502); the text is the LLM's or the fallback
GenerateStrategies(focus_areas, strategies) ==
    /\ user_authenticated
    /\ journal_entries # <<>>         \* line 1438: the form is shown only then
    /\ Len(coping_strategies) <= MaxItems
    /\ IF focus_areas # <<>>
       THEN /\ coping_strategies' =
                  Append(coping_strategies,
                         [date |-> Today, focus_areas |-> focus_areas,
                          strategy |-> strategies])
            /\ UNCHANGED <<journal_entries, wearable_data>>
            /\ SaveSession(UserData3)
       ELSE UNCHANGED <<journal_entries, wearable_data, coping_strategies,
                        user_data_store, session_keys>>
    /\ last_action' = "main"
    /\ logout_data' = NoLogout
    /\ UNCHANGED <<user_authenticated, user_id, coaching_history,
                   zen_garden_data, store_call, pure_vars>>

\* "Start Coaching Session" (lines 1712-1753)
StartCoachingSession(coaching_response) ==
    /\ user_authenticated
    /\ Len(coaching_history) < MaxItems
    /\ coaching_history' =
          Append(coaching_history,
                 [date |-> Today, session_id |-> Len(coaching_history) + 1,
                  messages |-> <<"focus", coaching_response>>])
    /\ UNCHANGED <<journal_entries, wearable_data, coping_strategies>>
    /\ SaveSession(UserData4)
    /\ last_action' = "main"
    /\ logout_data' = NoLogout
    /\ UNCHANGED <<user_authenticated, user_id, zen_garden_data, store_call, pure_vars>>

\* "Start Guided Meditation" (lines 2073-2094)
StartGuidedMeditation(duration_minutes) ==
    /\ user_authenticated
    /\ Len(zen_garden_data.meditation_sessions) < MaxItems
    /\ zen_garden_data' = record_meditation_session(zen_garden_data, duration_minutes)
    /\ UNCHANGED <<journal_entries, wearable_data, coping_strategies,
                   coaching_history>>
    /\ SaveSession(UserData5)
    /\ last_action' = "main"
    /\ logout_data' = NoLogout
    /\ UNCHANGED <<user_authenticated, user_id, store_call, pure_vars>>

\* "Save Garden Changes" (lines 2112-2127)
SaveGardenChanges ==
    /\ user_authenticated
    /\ zen_garden_data' = [zen_garden_data EXCEPT !["last_modified"] = Today]
    /\ UNCHANGED <<journal_entries, wearable_data, coping_strategies,
                   coaching_history>>
    /\ SaveSession(UserData5)
    /\ last_action' = "main"
    /\ logout_data' = NoLogout
    /\ UNCHANGED <<user_authenticated, user_id, store_call, pure_vars>>

(***************************************************************************)
(* helpers.py called directly: load_user_data and save_user_data with any  *)
(* user id and any record, on the store the calls before have left.        *)
(***************************************************************************)
StoreUsers == {"alice", "bob", "carol"}
StoreRecords ==
    {EmptyDict, create_sample_data("u"),
     [journal_entries |-> <<StoredEntry("c1")>>, wearable_data |-> <<>>,
      coping_strategies |-> <<>>, coaching_history |-> <<>>]}

StoreIdle == store_call = [op |-> "none"]

\* store_call: the call made last, the store it found and what it returned
CallSave(uid, data) ==
    /\ LET r == save_user_data(user_data_store, session_keys, uid, data)
       IN  /\ user_data_store' = r.store
           /\ session_keys' = r.keys
           /\ store_call' = [op |-> "save", uid |-> uid, data |-> data,
                             before |-> user_data_store, ret |-> r.ret]
    /\ UNCHANGED <<user_authenticated, user_id, journal_entries, wearable_data,
                   coping_strategies, coaching_history, zen_garden_data,
                   last_action, logout_data, pure_vars>>

\* A load; a load that follows a save keeps what was saved (saved_uid,
\* saved_data) beside what it returned.
CallLoad(uid) ==
    /\ LET r == load_user_data(user_data_store, session_keys, uid)
       IN  /\ user_data_store' = r.store
           /\ session_keys' = r.keys
           /\ store_call' =
                 [op |-> "load", uid |-> uid, before |-> user_data_store,
                  ret |-> r.ret,
                  after_save |-> store_call.op = "save",
                  saved_uid |-> IF store_call.op = "save"
                                THEN store_call.uid ELSE None,
                  saved_data |-> IF store_call.op = "save"
                                 THEN store_call.data ELSE EmptyDict]
    /\ UNCHANGED <<user_authenticated, user_id, journal_entries, wearable_data,
                   coping_strategies, coaching_history, zen_garden_data,
                   last_action, logout_data, pure_vars>>

StoreNext ==
    \/ \E u \in StoreUsers, d \in StoreRecords : CallSave(u, d)
    \/ \E u \in StoreUsers : CallLoad(u)

WellnessIdle == processed_data = EmptyDict /\ wellness = [pc |-> "none"]
StressIdle ==
    /\ latest_journal = Nothing
    /\ latest_wearable = Nothing
    /\ prediction = [pc |-> "none"]
LlmIdle == llm_call = [op |-> "none"] /\ stdout = <<>>
PrivacyIdle == heap = <<>> /\ privacy_call = [op |-> "none", before |-> <<>>]
StatsIdle ==
    /\ streak_call = [pc |-> "none"]
    /\ meditation_call = [pc |-> "none"]
    /\ mood_call = [pc |-> "none"]
PureIdle == WellnessIdle /\ StressIdle /\ LlmIdle /\ PrivacyIdle /\ StatsIdle

StoreInit == SessionInit /\ StoreIdle /\ PureIdle

SpecStore == StoreInit /\ [][StoreNext]_vars

Init == SessionInit /\ StoreIdle /\ PureIdle

Next ==
    \/ \E u \in Usernames, p \in Passwords : Login(u, p)
    \/ Logout
    \/ \E c \in JournalContents : SaveJournalEntry(c)
    \/ ImportWearableData
    \/ \E f \in FocusChoices : GenerateStrategies(f, "strategies")
    \/ StartCoachingSession("advice")
    \/ \E d \in MeditationDurations : StartGuidedMeditation(d)
    \/ SaveGardenChanges

Spec == Init /\ [][Next]_vars
(***************************************************************************)
(* data_processing.py: calculate_wellness_score                            *)
(*                                                                         *)
(* The scores are fractions; a score x is held as the integer x * Scale,   *)
(* which is exact for integer inputs: the sleep score is a multiple of     *)
(* 1/20, the activity score of 1/3000 and the heart score of 1/(3 * n) for *)
(* n in 1..4 heart metrics.  The weights 0.3, 0.2, 0.3, 0.2 are held in    *)
(* tenths.                                                                 *)
(***************************************************************************)
Scale == 20 * 450

Min(a, b) == IF a <= b THEN a ELSE b
Max(a, b) == IF a >= b THEN a ELSE b
Abs(a) == IF a >= 0 THEN a ELSE -a

\* Python's round(n / d) for d > 0, computed exactly: to the nearest integer,
\* a tie to the even one
Round(n, d) ==
    LET q == n \div d
        r == n - q * d
    IN  IF 2 * r < d THEN q
        ELSE IF 2 * r > d THEN q + 1
        ELSE IF q % 2 = 0 THEN q ELSE q + 1

\* round(x) of a float x computed from tenths (0.3, 0.7, ...), whose exact
\* value is n / d: the float is within an ulp of n / d, so the result is
\* Round(n, d) unless n / d is a tie, where the float may lie on either side
\* of it (tie_up: it rounds up).
RoundFloat(n, d, tie_up) ==
    LET q == n \div d
        r == n - q * d
    IN  IF 2 * r = d THEN (IF tie_up THEN q + 1 ELSE q) ELSE Round(n, d)

component_weights == [sleep |-> 3, activity |-> 2, heart |-> 3, stress |-> 2]

\* lines 162-173: min(100, eff) * 0.7 + max(0, 100 - |h - 8| / 8 * 100) * 0.3
sleep_score(d) ==
    LET eff == Min(100, d["sleep_efficiency"])
        \* twice the sleep duration score
        dur2 == 200 - 25 * Abs(Get(d, "sleep_hours", 0) - 8)
    IN  (Scale \div 20) * (14 * eff + 3 * Max(0, dur2))

\* lines 175-186: min(100, steps / 10000 * 100) * 0.6
\*                + min(100, minutes / 30 * 100) * 0.4
activity_score(d) ==
    LET steps100 == Min(10000, d["steps"])
        minutes3 == Min(300, 10 * Get(d, "activity_minutes", 0))
    IN  (Scale \div 3000) * (18 * steps100 + 400 * minutes3)

\* lines 192-206
rhr_score(rhr) ==
    IF rhr < 50 THEN 80
    ELSE IF rhr < 60 THEN 90
    ELSE IF rhr <= 70 THEN 100
    ELSE IF rhr <= 80 THEN 80
    ELSE IF rhr <= 90 THEN 60
    ELSE 40

\* lines 226-234
spo2_score(spo2) ==
    IF spo2 >= 95 THEN 100 ELSE IF spo2 >= 90 THEN 80 ELSE 50

\* lines 188-236: the heart metrics that are present, each score times 3
heart_metrics(d) ==
    (IF Get(d, "resting_heart_rate", 0) > 0
     THEN <<3 * rhr_score(d["resting_heart_rate"])>> ELSE <<>>)
    \o (IF Get(d, "heart_rate_variability", 0) > 0
        THEN <<3 * Min(100, Max(0, d["heart_rate_variability"]))>> ELSE <<>>)
    \o (IF Get(d, "vo2_max", 0) > 0
        THEN <<Min(300, Max(0, 5 * d["vo2_max"]))>> ELSE <<>>)
    \o (IF Get(d, "blood_oxygen", 0) > 0
        THEN <<3 * spo2_score(d["blood_oxygen"])>> ELSE <<>>)

RECURSIVE SumSeq(_)
SumSeq(s) == IF s = <<>> THEN 0 ELSE Head(s) + SumSeq(Tail(s))

\* lines 238-241: heart_score / heart_metrics_count
heart_score(d) ==
    LET m == heart_metrics(d)
    IN  (Scale \div (3 * Len(m))) * SumSeq(m)

\* lines 243-255: the stress component, or <<>> when there is none
stress_component(d) ==
    IF Get(d, "stress_score", 0) > 0
    THEN <<[name |-> "stress", score |-> Scale * (100 - d["stress_score"])]>>
    ELSE IF Get(d, "body_battery", 0) > 0
    THEN <<[name |-> "stress", score |-> Scale * d["body_battery"]]>>
    ELSE IF Get(d, "recovery_score", 0) > 0
    THEN <<[name |-> "stress", score |-> Scale * d["recovery_score"]]>>
    ELSE <<>>

\* the list score_components, as the code appends to it
score_components(d) ==
    (IF Get(d, "sleep_efficiency", 0) > 0
     THEN <<[name |-> "sleep", score |-> sleep_score(d)]>> ELSE <<>>)
    \o (IF Get(d, "steps", 0) > 0
        THEN <<[name |-> "activity", score |-> activity_score(d)]>> ELSE <<>>)
    \o (IF heart_metrics(d) # <<>>
        THEN <<[name |-> "heart", score |-> heart_score(d)]>> ELSE <<>>)
    \o stress_component(d)

RECURSIVE weighted_sum(_)
weighted_sum(cs) ==
    IF cs = <<>> THEN 0
    ELSE Head(cs).score * component_weights[Head(cs).name] + weighted_sum(Tail(cs))

RECURSIVE total_weight(_)
total_weight(cs) ==
    IF cs = <<>> THEN 0
    ELSE component_weights[Head(cs).name] + total_weight(Tail(cs))

\* lines 257-270
calculate_wellness_score(d, tie_up) ==
    LET cs == score_components(d)
    IN  IF cs # <<>> /\ total_weight(cs) > 0
        THEN RoundFloat(weighted_sum(cs), Scale * total_weight(cs), tie_up)
        ELSE 0

\* process_wearable_data, lines 137-140: what it does with the score
with_wellness_score(processed, wellness_score) ==
    IF wellness_score > 0
    THEN Put(processed, "wellness_score", wellness_score)
    ELSE processed

\* The records calculate_wellness_score is applied to: every field is absent
\* or holds one of a few values on both sides of the code's thresholds.
Field(k, values) == {EmptyDict} \cup {[x \in {k} |-> v] : v \in values}

WellnessRecords ==
    { a @@ b @@ c @@ e @@ f @@ g @@ h @@ i @@ j @@ k @@ l :
        a \in Field("sleep_efficiency", {45, 120}),
        b \in Field("sleep_hours", {5, 20}),
        c \in Field("steps", {250, 4000, 12000}),
        e \in Field("activity_minutes", {10, 15}),
        f \in Field("resting_heart_rate", {65, 95}),
        g \in Field("heart_rate_variability", {50}),
        h \in Field("vo2_max", {70}),
        i \in Field("blood_oxygen", {92}),
        j \in Field("stress_score", {30, 100, 150}),
        k \in Field("body_battery", {60, 150}),
        l \in Field("recovery_score", {70}) }

WellnessInit ==
    /\ processed_data \in WellnessRecords
    /\ wellness = [pc |-> "input"]
    /\ SessionInit /\ StoreIdle /\ StressIdle /\ LlmIdle /\ PrivacyIdle /\ StatsIdle

CalculateWellnessScore ==
    /\ wellness.pc = "input"
    /\ \E tie_up \in BOOLEAN :
          LET wellness_score == calculate_wellness_score(processed_data, tie_up)
          IN  wellness' = [pc |-> "done",
                           score |-> wellness_score,
                           components |-> score_components(processed_data),
                           processed |-> with_wellness_score(processed_data,
                                                             wellness_score)]
    /\ UNCHANGED <<processed_data, session_vars, store_call, stress_vars, llm_vars,
                   privacy_vars,
                   stats_vars>>

WellnessNext == CalculateWellnessScore

SpecWellness == WellnessInit /\ [][WellnessNext]_vars

(***************************************************************************)
(* ml_models.py: predict_stress_level                                      *)
(*                                                                         *)
(* base_stress moves in steps of 0.5, which floats hold exactly; it is     *)
(* held doubled (base2).  A sentiment compound is held in tenths.          *)
(***************************************************************************)
\* lines 138-154: twice the sleep factor
sleep_factor2(w) ==
    IF w # Nothing /\ DOMAIN w[1] # {} /\ "sleep_hours" \in DOMAIN w[1]
    THEN (IF w[1]["sleep_hours"] < 6 THEN 3
          ELSE IF w[1]["sleep_hours"] > 8 THEN -2
          ELSE -1)
    ELSE 0

\* lines 156-169: twice the heart rate factor
hr_factor2(w) ==
    IF w # Nothing /\ DOMAIN w[1] # {} /\ "avg_heart_rate" \in DOMAIN w[1]
    THEN (IF w[1]["avg_heart_rate"] > 80 THEN 2
          ELSE IF w[1]["avg_heart_rate"] < 65 THEN -1
          ELSE 0)
    ELSE 0

\* lines 171-184: twice the activity factor
activity_factor2(w) ==
    IF w # Nothing /\ DOMAIN w[1] # {} /\ "steps" \in DOMAIN w[1]
    THEN (IF w[1]["steps"] < 3000 THEN 1
          ELSE IF w[1]["steps"] > 8000 THEN -2
          ELSE 0)
    ELSE 0

\* lines 186-199: twice the sentiment factor (compound in tenths: -0.3 is -3)
sentiment_factor2(j) ==
    IF j # Nothing /\ DOMAIN j[1] # {} /\ "sentiment" \in DOMAIN j[1]
    THEN LET sentiment == Get(j[1]["sentiment"], "compound", 0)
         IN  IF sentiment < -3 THEN 3
             ELSE IF sentiment > 3 THEN -2
             ELSE 0
    ELSE 0

\* lines 201-220: twice what the activities add to base_stress
activities_factor2(j) ==
    IF j # Nothing /\ DOMAIN j[1] # {} /\ "activities" \in DOMAIN j[1]
    THEN LET activities == j[1]["activities"]
         IN  (IF Get(activities, "exercise", FALSE) THEN -1 ELSE 0)
             + (IF Get(activities, "meditation", FALSE) THEN -2 ELSE 0)
             + (IF Get(activities, "outdoor_time", FALSE) THEN -1 ELSE 0)
             + (IF ~Get(activities, "social_interaction", FALSE) THEN 1 ELSE 0)
    ELSE 0

\* twice base_stress at line 222
base_stress2(j, w) ==
    2 * 5 + sleep_factor2(w) + hr_factor2(w) + activity_factor2(w)
    + sentiment_factor2(j) + activities_factor2(j)

\* line 223 without its clamp
predicted_stress_unclamped(base2) == Round(base2, 2)

\* line 223: max(1, min(10, round(base_stress)))
predicted_stress(base2) == Max(1, Min(10, Round(base2, 2)))

\* the recommendations appended at lines 146, 164, 179, 194 and 220
specific_recommendations(j, w) ==
    (IF sleep_factor2(w) = 3 THEN <<"sleep">> ELSE <<>>)
    \o (IF hr_factor2(w) = 2 THEN <<"breathing">> ELSE <<>>)
    \o (IF activity_factor2(w) = 1 THEN <<"walking">> ELSE <<>>)
    \o (IF sentiment_factor2(j) = 3 THEN <<"mindfulness">> ELSE <<>>)
    \o (IF j # Nothing /\ DOMAIN j[1] # {} /\ "activities" \in DOMAIN j[1]
           /\ ~Get(j[1]["activities"], "social_interaction", FALSE)
        THEN <<"connecting">> ELSE <<>>)

\* lines 225-234
predict_stress_level(j, w) ==
    LET recommendations == specific_recommendations(j, w)
    IN  [predicted_stress_level |-> predicted_stress(base_stress2(j, w)),
         recommendations |->
            IF Len(recommendations) < 2
            THEN recommendations \o <<"deep breathing", "short breaks">>
            ELSE recommendations]

\* The arguments: None, {} or a record with any subset of the optional
\* fields, each with values on both sides of the code's thresholds.
WearableArguments ==
    {Nothing} \cup
    { Some(a @@ b @@ c) :
        a \in Field("sleep_hours", {5, 7, 9}),
        b \in Field("avg_heart_rate", {60, 70, 90}),
        c \in Field("steps", {2000, 5000, 9000}) }

ActivitiesValues ==
    { a @@ b @@ c @@ e :
        a \in Field("exercise", BOOLEAN),
        b \in Field("meditation", BOOLEAN),
        c \in Field("outdoor_time", BOOLEAN),
        e \in Field("social_interaction", BOOLEAN) }

SentimentValues == {EmptyDict} \cup {[compound |-> v] : v \in {-5, 0, 5}}

JournalArguments ==
    {Nothing} \cup
    { Some(a @@ b) :
        a \in Field("sentiment", SentimentValues),
        b \in Field("activities", ActivitiesValues) }

StressInit ==
    /\ latest_journal \in JournalArguments
    /\ latest_wearable \in WearableArguments
    /\ prediction = [pc |-> "input"]
    /\ SessionInit /\ StoreIdle /\ WellnessIdle /\ LlmIdle /\ PrivacyIdle /\ StatsIdle

PredictStressLevel ==
    /\ prediction.pc = "input"
    /\ prediction' = [pc |-> "done",
                      base2 |-> base_stress2(latest_journal, latest_wearable),
                      result |-> predict_stress_level(latest_journal, latest_wearable)]
    /\ UNCHANGED <<latest_journal, latest_wearable, session_vars, store_call,
                   wellness_vars, llm_vars, privacy_vars,
                   stats_vars>>

StressNext == PredictStressLevel

SpecStress == StressInit /\ [][StressNext]_vars

(***************************************************************************)
(* The LLM-backed operations: ai_coaching.py, openai_integration.py and    *)
(* openai_helper.py.                                                       *)
(*                                                                         *)
(* openai.chat.completions.create is the environment: outs[k] is how the   *)
(* k-th call of one invocation ends: "ok" (a response), "bad_json" (a      *)
(* response json.loads rejects) or "error" (the call raises).  An          *)
(* operation ends as [kind, value, fallback, calls, failures, log]: it     *)
(* returns value (fallback: its hard-coded default) or raises it; calls    *)
(* counts its chat-completion calls, failures those that raised, and log   *)
(* holds the lines it printed.                                             *)
(***************************************************************************)
MaxCalls == 2        \* calls whose outcome the environment fixes in advance
MaxAreas == 2        \* focus areas handed to one call
MaxLog == 2          \* lines kept in stdout

LlmOutcomes == {"ok", "bad_json", "error"}
CallOutcomes == [1..MaxCalls -> LlmOutcomes]

Return(v, fb, calls, failures, log) ==
    [kind |-> "return", value |-> v, fallback |-> fb, calls |-> calls,
     failures |-> failures, log |-> log]

Failures(o) == IF o = "error" THEN 1 ELSE 0

\* openai_integration.generate_fallback_strategies --------------------------
\* The five texts of the list `strategies`; only the first holds "5 minutes".
AllStrategies ==
    <<"Deep Breathing Exercise", "Mindful Observation", "Brief Physical Movement",
      "Gratitude Practice", "Progressive Muscle Relaxation">>

\* lines 127-129
available_strategies(time_available) ==
    IF time_available < 5
    THEN LET NotFiveMinutes(t) == t # "Deep Breathing Exercise"
         IN  SelectSeq(AllStrategies, NotFiveMinutes)
    ELSE AllStrategies

\* lines 141-155: the 0-based index the elif chain picks for area.lower(),
\* -1 when no branch names it
area_index(area) ==
    IF area \in {"breathing", "relaxation"} THEN 0
    ELSE IF area \in {"mindfulness", "present"} THEN 1
    ELSE IF area \in {"physical", "movement", "exercise"} THEN 2
    ELSE IF area \in {"gratitude", "positive", "perspective"} THEN 3
    ELSE IF area \in {"muscle", "tension", "relaxation"} THEN 4
    ELSE -1

\* lines 139-155: the loop over focus_areas; strategies[i] beyond the list
\* raises IndexError
RECURSIVE add_focus_strategies(_, _, _)
add_focus_strategies(focus_areas, strategies, acc) ==
    IF focus_areas = <<>> \/ acc.kind = "raise" THEN acc
    ELSE LET i == area_index(Head(focus_areas))
         IN  IF i >= 0 /\ acc.added < 3
             THEN IF i + 1 > Len(strategies)
                  THEN [acc EXCEPT !.kind = "raise"]
                  ELSE add_focus_strategies(
                          Tail(focus_areas), strategies,
                          [acc EXCEPT !.response = Append(@, strategies[i + 1]),
                                      !.added = @ + 1])
             ELSE add_focus_strategies(Tail(focus_areas), strategies, acc)

\* lines 117-162: the strategies of the response in order, or IndexError
generate_fallback_strategies(focus_areas, time_available) ==
    LET strategies == available_strategies(time_available)
        acc == add_focus_strategies(focus_areas, strategies,
                                    [kind |-> "return", response |-> <<>>,
                                     added |-> 0])
    IN  IF acc.kind = "raise"
        THEN [kind |-> "raise", value |-> <<"IndexError">>]
        ELSE IF acc.added < 2
        THEN [kind |-> "return",
              value |-> acc.response
                        \o SubSeq(strategies, 1,
                                  Min(2 - acc.added, Len(strategies)))]
        ELSE [kind |-> "return", value |-> acc.response]

\* ai_coaching.py ------------------------------------------------------------
\* lines 128-149
generate_coaching_advice(outs) ==
    IF outs[1] # "error"
    THEN Return(<<"response">>, FALSE, 1, 0, <<>>)
    ELSE Return(<<"Coaching Advice Unavailable">>, TRUE, 1, 1,
                <<"Error generating coaching advice">>)

\* lines 172-258; recent_journals: how many journal entries are in the timeframe
analyze_progress(recent_journals, outs) ==
    IF recent_journals < 2
    THEN Return(<<"Insufficient journal data">>, FALSE, 0, 0, <<>>)
    ELSE IF outs[1] = "ok"
    THEN Return(<<"response">>, FALSE, 1, 0, <<>>)
    ELSE Return(<<"Unable to analyze due to technical error">>, TRUE, 1,
                Failures(outs[1]), <<"Error analyzing progress">>)

\* lines 306-337
generate_personalized_exercise(outs) ==
    IF outs[1] = "ok"
    THEN Return(<<"response">>, FALSE, 1, 0, <<>>)
    ELSE Return(<<"Basic Mindful Breathing Exercise">>, TRUE, 1,
                Failures(outs[1]), <<"Error generating exercise">>)

\* openai_integration.py -------------------------------------------------------
\* lines 21-46
integration_analyze_journal_sentiment(outs) ==
    IF outs[1] = "ok"
    THEN Return(<<"response">>, FALSE, 1, 0, <<>>)
    ELSE Return(<<"neutral", "Unable to analyze due to API error">>, TRUE, 1,
                Failures(outs[1]), <<>>)

\* lines 62-81: the except branch returns generate_fallback_strategies(...)
integration_generate_coping_strategies(focus_areas, time_available, outs) ==
    IF outs[1] # "error"
    THEN Return(<<"response">>, FALSE, 1, 0, <<>>)
    ELSE LET fb == generate_fallback_strategies(focus_areas, time_available)
         IN  [kind |-> fb.kind, value |-> fb.value, fallback |-> TRUE,
              calls |-> 1, failures |-> 1, log |-> <<>>]

\* lines 175-235
integration_analyze_sleep_patterns(outs) ==
    IF outs[1] = "ok"
    THEN Return(<<"response">>, FALSE, 1, 0, <<>>)
    ELSE Return(<<"Unable to analyze due to API error">>, TRUE, 1,
                Failures(outs[1]), <<>>)

\* openai_helper.py ------------------------------------------------------------
\* lines 27-33: the body of the try block
helper_try_coping_strategies(api_key, focus_areas, time_available, outs) ==
    IF ~api_key
    THEN LET fb == generate_fallback_strategies(focus_areas, time_available)
         IN  [kind |-> fb.kind, value |-> fb.value, fallback |-> TRUE,
              calls |-> 0, failures |-> 0, log |-> <<>>]
    ELSE integration_generate_coping_strategies(focus_areas, time_available, outs)

\* lines 27-37 with an except branch that calls the integration once more
helper_generate_coping_strategies_retry(api_key, focus_areas, time_available, outs) ==
    LET t == helper_try_coping_strategies(api_key, focus_areas, time_available, outs)
    IN  IF t.kind = "return" /\ t.failures = 0 THEN t
        ELSE LET again == integration_generate_coping_strategies(
                              focus_areas, time_available, Tail(outs))
             IN  [again EXCEPT !.calls = t.calls + @,
                               !.failures = t.failures + @,
                               !.log = t.log \o <<"Error generating strategies">>]

\* lines 27-37
helper_generate_coping_strategies(api_key, focus_areas, time_available, outs) ==
    LET t == helper_try_coping_strategies(api_key, focus_areas, time_available, outs)
    IN  IF t.kind = "return" THEN t
        ELSE LET fb == generate_fallback_strategies(focus_areas, time_available)
             IN  [kind |-> fb.kind, value |-> fb.value, fallback |-> TRUE,
                  calls |-> t.calls, failures |-> t.failures,
                  log |-> t.log \o <<"Error generating strategies">>]

\* lines 49-66: the integration's function never raises
helper_analyze_journal_sentiment(api_key, outs) ==
    IF ~api_key
    THEN Return(<<"neutral", "unknown">>, TRUE, 0, 0, <<>>)
    ELSE integration_analyze_journal_sentiment(outs)

\* lines 79-101: the integration's function never raises
helper_analyze_sleep_patterns(api_key, outs) ==
    IF ~api_key
    THEN Return(<<"Unable to analyze due to API key not available">>, TRUE,
                0, 0, <<>>)
    ELSE integration_analyze_sleep_patterns(outs)

\* The calls ------------------------------------------------------------------
FocusAreaNames == {"breathing", "gratitude", "tension", "Stress Reduction"}
TimesAvailable == {3, 15}
FocusAreaLists == UNION {[1..n -> FocusAreaNames] : n \in 0..MaxAreas}

LlmInit ==
    /\ LlmIdle
    /\ SessionInit /\ StoreIdle /\ WellnessIdle /\ StressIdle /\ PrivacyIdle /\ StatsIdle

\* The arguments of one call; an operation ignores those it does not take
Args(api_key, focus_areas, time_available, recent_journals) ==
    [api_key |-> api_key, focus_areas |-> focus_areas,
     time_available |-> time_available, recent_journals |-> recent_journals]

NoArgs == Args(TRUE, <<>>, 15, 0)

not_llm_vars ==
    <<session_vars, store_call, wellness_vars, stress_vars, privacy_vars,
                   stats_vars>>

CallGenerateCoachingAdvice ==
    \E outs \in CallOutcomes :
        LET r == generate_coaching_advice(outs)
        IN  /\ Len(stdout) < MaxLog
            /\ llm_call' = [op |-> "ai_coaching.generate_coaching_advice",
                            args |-> NoArgs, result |-> r]
            /\ stdout' = stdout \o r.log
            /\ UNCHANGED not_llm_vars

CallAnalyzeProgress ==
    \E n \in 0..2, outs \in CallOutcomes :
        LET r == analyze_progress(n, outs)
        IN  /\ Len(stdout) < MaxLog
            /\ llm_call' = [op |-> "ai_coaching.analyze_progress",
                            args |-> Args(TRUE, <<>>, 15, n), result |-> r]
            /\ stdout' = stdout \o r.log
            /\ UNCHANGED not_llm_vars

CallGeneratePersonalizedExercise ==
    \E outs \in CallOutcomes :
        LET r == generate_personalized_exercise(outs)
        IN  /\ Len(stdout) < MaxLog
            /\ llm_call' = [op |-> "ai_coaching.generate_personalized_exercise",
                            args |-> NoArgs, result |-> r]
            /\ stdout' = stdout \o r.log
            /\ UNCHANGED not_llm_vars

CallIntegrationAnalyzeJournalSentiment ==
    \E outs \in CallOutcomes :
        LET r == integration_analyze_journal_sentiment(outs)
        IN  /\ Len(stdout) < MaxLog
            /\ llm_call' = [op |-> "openai_integration.analyze_journal_sentiment",
                            args |-> NoArgs, result |-> r]
            /\ stdout' = stdout \o r.log
            /\ UNCHANGED not_llm_vars

CallIntegrationGenerateCopingStrategies ==
    \E f \in FocusAreaLists, t \in TimesAvailable, outs \in CallOutcomes :
        LET r == integration_generate_coping_strategies(f, t, outs)
        IN  /\ Len(stdout) < MaxLog
            /\ llm_call' = [op |-> "openai_integration.generate_coping_strategies",
                            args |-> Args(TRUE, f, t, 0), result |-> r]
            /\ stdout' = stdout \o r.log
            /\ UNCHANGED not_llm_vars

CallIntegrationAnalyzeSleepPatterns ==
    \E outs \in CallOutcomes :
        LET r == integration_analyze_sleep_patterns(outs)
        IN  /\ Len(stdout) < MaxLog
            /\ llm_call' = [op |-> "openai_integration.analyze_sleep_patterns",
                            args |-> NoArgs, result |-> r]
            /\ stdout' = stdout \o r.log
            /\ UNCHANGED not_llm_vars

CallHelperGenerateCopingStrategies ==
    \E key \in BOOLEAN, f \in FocusAreaLists, t \in TimesAvailable,
       outs \in CallOutcomes :
        LET r == helper_generate_coping_strategies(key, f, t, outs)
        IN  /\ Len(stdout) < MaxLog
            /\ llm_call' = [op |-> "openai_helper.generate_coping_strategies",
                            args |-> Args(key, f, t, 0), result |-> r]
            /\ stdout' = stdout \o r.log
            /\ UNCHANGED not_llm_vars

CallHelperAnalyzeJournalSentiment ==
    \E key \in BOOLEAN, outs \in CallOutcomes :
        LET r == helper_analyze_journal_sentiment(key, outs)
        IN  /\ Len(stdout) < MaxLog
            /\ llm_call' = [op |-> "openai_helper.analyze_journal_sentiment",
                            args |-> Args(key, <<>>, 15, 0), result |-> r]
            /\ stdout' = stdout \o r.log
            /\ UNCHANGED not_llm_vars

CallHelperAnalyzeSleepPatterns ==
    \E key \in BOOLEAN, outs \in CallOutcomes :
        LET r == helper_analyze_sleep_patterns(key, outs)
        IN  /\ Len(stdout) < MaxLog
            /\ llm_call' = [op |-> "openai_helper.analyze_sleep_patterns",
                            args |-> Args(key, <<>>, 15, 0), result |-> r]
            /\ stdout' = stdout \o r.log
            /\ UNCHANGED not_llm_vars

CallGenerateFallbackStrategies ==
    \E f \in FocusAreaLists, t \in TimesAvailable :
        LET fb == generate_fallback_strategies(f, t)
            r == [kind |-> fb.kind, value |-> fb.value, fallback |-> TRUE,
                  calls |-> 0, failures |-> 0, log |-> <<>>]
        IN  /\ Len(stdout) < MaxLog
            /\ llm_call' = [op |-> "openai_integration.generate_fallback_strategies",
                            args |-> Args(TRUE, f, t, 0), result |-> r]
            /\ stdout' = stdout \o r.log
            /\ UNCHANGED not_llm_vars

LlmNext ==
    \/ CallGenerateFallbackStrategies
    \/ CallGenerateCoachingAdvice
    \/ CallAnalyzeProgress
    \/ CallGeneratePersonalizedExercise
    \/ CallIntegrationAnalyzeJournalSentiment
    \/ CallIntegrationGenerateCopingStrategies
    \/ CallIntegrationAnalyzeSleepPatterns
    \/ CallHelperGenerateCopingStrategies
    \/ CallHelperAnalyzeJournalSentiment
    \/ CallHelperAnalyzeSleepPatterns

SpecLLM == LlmInit /\ [][LlmNext]_vars

(***************************************************************************)
(* utils/privacy.py.                                                       *)
(*                                                                         *)
(* Dictionaries are objects: heap[r] is the dictionary behind reference r, *)
(* so that a function that writes into its argument (encrypt_data) and one *)
(* that copies it first (decrypt_data, anonymize_data) differ.  Each       *)
(* function takes the heap and returns the heap it leaves and the          *)
(* reference it returns.                                                   *)
(***************************************************************************)
MaxEntries == 2      \* entries in user_data['journal_entries']

Flag == "_would_be_encrypted"

IdentifierKeys == {"user_id", "name", "email"}
TextKeys == {"content", "title"}
PrivacyKeys ==
    IdentifierKeys \cup TextKeys \cup {"date", "mood_score", "sentiment", Flag}

\* The value an argument dictionary holds under each key
PrivacyValue ==
    [k \in PrivacyKeys |->
        CASE k = "user_id" -> "alice"
          [] k = "name" -> "Alice"
          [] k = "email" -> "alice@example.com"
          [] k = "content" -> "c1"
          [] k = "title" -> "t1"
          [] k = "date" -> Today
          [] k = "mood_score" -> 7
          [] k = "sentiment" -> [sentiment |-> "positive"]
          [] k = Flag -> TRUE]

PrivacyDicts == {[k \in ks |-> PrivacyValue[k]] : ks \in SUBSET PrivacyKeys}

\* hashlib.sha256(date + os.urandom(8).hex()).hexdigest()[:12]
AnonymizedIds == {"3f2a", "9c41"}

Refs(h) == 1..Len(h)

\* lines 6-27: writes the flag into the argument and returns the argument
encrypt_data(h, data_dict) ==
    [heap |-> [h EXCEPT ![data_dict] = Put(@, Flag, TRUE)], ret |-> data_dict]

\* decrypt_data that returns its copy with the flag still in it
decrypt_data_keep_flag(h, encrypted_data) ==
    [heap |-> Append(h, h[encrypted_data]), ret |-> Len(h) + 1]

\* decrypt_data that deletes the flag from its argument and returns it
decrypt_data_in_place(h, encrypted_data) ==
    [heap |-> [h EXCEPT ![encrypted_data] = Del(@, Flag)], ret |-> encrypted_data]

\* lines 29-52: copies the argument and deletes the flag from the copy
decrypt_data(h, encrypted_data) ==
    LET decrypted_data == h[encrypted_data]
    IN  [heap |-> Append(h, Del(decrypted_data, Flag)), ret |-> Len(h) + 1]

\* lines 80-84
safe_keys ==
    {"mood_score", "stress_level", "sleep_quality", "sleep_hours",
     "avg_heart_rate", "steps", "deep_sleep_percentage", "rem_sleep_percentage"}

\* lines 64-78: the copy without identifiers and with redacted text
redacted(d) ==
    LET without == [k \in DOMAIN d \ IdentifierKeys |-> d[k]]
        content == IF "content" \in DOMAIN without
                   THEN Put(without, "content", "[REDACTED PERSONAL TEXT]")
                   ELSE without
    IN  IF "title" \in DOMAIN content
        THEN Put(content, "title", "[REDACTED TITLE]")
        ELSE content

\* lines 89-95
with_anonymized_id(anonymized, safe_data, id) ==
    IF "date" \in DOMAIN anonymized
    THEN Put(safe_data, "anonymized_id", id)
    ELSE safe_data

\* anonymize_data without the safe_keys comprehension
anonymize_data_unfiltered(h, data_dict, id) ==
    LET anonymized == redacted(h[data_dict])
    IN  [heap |-> Append(h, with_anonymized_id(anonymized, anonymized, id)),
         ret |-> Len(h) + 1]

\* lines 54-97
anonymize_data(h, data_dict, id) ==
    LET anonymized == redacted(h[data_dict])
        safe_data == [k \in DOMAIN anonymized \cap safe_keys |-> anonymized[k]]
    IN  [heap |-> Append(h, with_anonymized_id(anonymized, safe_data, id)),
         ret |-> Len(h) + 1]

\* lines 128-135: the loop over user_data['journal_entries']
RECURSIVE export_journal_items(_, _, _, _)
export_journal_items(h, entries, include_sensitive, items) ==
    IF entries = <<>> THEN [heap |-> h, items |-> items]
    ELSE LET dec == decrypt_data(h, Head(entries))
             decrypted_entry == dec.heap[dec.ret]
             h2 == IF ~include_sensitive /\ "sentiment" \in DOMAIN decrypted_entry
                   THEN [dec.heap EXCEPT ![dec.ret] = Del(@, "sentiment")]
                   ELSE dec.heap
         IN  export_journal_items(h2, Tail(entries), include_sensitive,
                                  Append(items, dec.ret))

\* lines 99-150; user_data maps its keys to lists of references
create_data_export(h, user_data, include_sensitive) ==
    LET journal == export_journal_items(
                       h,
                       IF "journal_entries" \in DOMAIN user_data
                       THEN user_data["journal_entries"] ELSE <<>>,
                       include_sensitive, <<>>)
        journal_export ==
            IF "journal_entries" \in DOMAIN user_data
            THEN <<[category |-> "Journal Entries", items |-> journal.items]>>
            ELSE <<>>
        wearable_export ==
            IF "wearable_data" \in DOMAIN user_data
            THEN <<[category |-> "Wearable Health Data",
                    items |-> user_data["wearable_data"]]>>
            ELSE <<>>
        strategies_export ==
            IF "coping_strategies" \in DOMAIN user_data
            THEN <<[category |-> "Coping Strategies",
                    items |-> user_data["coping_strategies"]]>>
            ELSE <<>>
    IN  [heap |-> journal.heap,
         ret |-> [export_date |-> "2023-01-01",
                  data_categories |->
                      journal_export \o wearable_export \o strategies_export]]

\* The calls ------------------------------------------------------------------
not_privacy_vars ==
    <<session_vars, store_call, wellness_vars, stress_vars, llm_vars,
      stats_vars>>

\* A journal entry as app.py builds it (lines 541-555), before and after
\* sentiment analysis and encrypt_data
JournalDicts ==
    {[k \in {"date", "content", "mood_score"} \cup ks |-> PrivacyValue[k]] :
        ks \in SUBSET {"sentiment", Flag}}

\* The caller holds one dictionary of any shape, or two journal entries
PrivacyInit ==
    /\ heap \in {<<d>> : d \in PrivacyDicts}
                 \cup {<<d, e>> : d \in JournalDicts, e \in JournalDicts}
    /\ privacy_call = [op |-> "none", before |-> heap]
    /\ SessionInit /\ StoreIdle /\ WellnessIdle /\ StressIdle /\ LlmIdle /\ StatsIdle

\* The caller's dictionaries: what the previous call returned is dropped
Kept == SubSeq(heap, 1, Len(privacy_call.before))

CallEncryptData ==
    \E r \in Refs(Kept) :
        LET c == encrypt_data(Kept, r)
        IN  /\ heap' = c.heap
            /\ privacy_call' = [op |-> "encrypt_data", arg |-> r,
                                before |-> Kept, ret |-> c.ret]
            /\ UNCHANGED not_privacy_vars

CallDecryptData ==
    \E r \in Refs(Kept) :
        LET c == decrypt_data(Kept, r)
        IN  /\ heap' = c.heap
            /\ privacy_call' = [op |-> "decrypt_data", arg |-> r,
                                before |-> Kept, ret |-> c.ret]
            /\ UNCHANGED not_privacy_vars

\* decrypt_data(encrypt_data(d))
CallDecryptEncrypted ==
    \E r \in Refs(Kept) :
        LET e == encrypt_data(Kept, r)
            c == decrypt_data(e.heap, e.ret)
        IN  /\ heap' = c.heap
            /\ privacy_call' = [op |-> "decrypt_data(encrypt_data)", arg |-> r,
                                before |-> Kept, ret |-> c.ret]
            /\ UNCHANGED not_privacy_vars

CallAnonymizeData ==
    \E r \in Refs(Kept), id \in AnonymizedIds :
        LET c == anonymize_data(Kept, r, id)
        IN  /\ heap' = c.heap
            /\ privacy_call' = [op |-> "anonymize_data", arg |-> r,
                                before |-> Kept, ret |-> c.ret]
            /\ UNCHANGED not_privacy_vars

RefLists(h, n) == UNION {[1..m -> Refs(h)] : m \in 0..n}

\* user_data with any of its three lists
UserDatas(h) ==
    {[k \in ks |-> IF k = "journal_entries" THEN entries ELSE <<1>>] :
        ks \in SUBSET {"journal_entries", "wearable_data", "coping_strategies"},
        entries \in RefLists(h, MaxEntries)}

CallCreateDataExport ==
    \E user_data \in UserDatas(Kept), include_sensitive \in BOOLEAN :
        LET c == create_data_export(Kept, user_data, include_sensitive)
        IN  /\ heap' = c.heap
            /\ privacy_call' = [op |-> "create_data_export",
                                user_data |-> user_data,
                                include_sensitive |-> include_sensitive,
                                before |-> Kept, ret |-> c.ret]
            /\ UNCHANGED not_privacy_vars

PrivacyNext ==
    \/ CallEncryptData
    \/ CallDecryptData
    \/ CallDecryptEncrypted
    \/ CallAnonymizeData
    \/ CallCreateDataExport

SpecPrivacy == PrivacyInit /\ [][PrivacyNext]_vars

(***************************************************************************)
(* helpers.get_streak_days.                                                *)
(*                                                                         *)
(* A date is the string an entry holds under 'date'.  strptime turns the   *)
(* strings of the calendar below into days (counted from 2024-02-27) and   *)
(* rejects every other string with ValueError.                             *)
(***************************************************************************)
MaxStreakEntries == 3    \* journal entries handed to get_streak_days

Calendar == <<"2024-02-27", "2024-02-28", "2024-02-29", "2024-03-01", "2024-03-02">>
DateStrings == {Calendar[i] : i \in 1..Len(Calendar)} \cup {"", "2024-02-30"}

\* datetime.datetime.now().date()
StreakToday == "2024-03-01"

\* helpers.py lines 61-65
validate_date_format(date_str) == \E i \in 1..Len(Calendar) : Calendar[i] = date_str

\* datetime.datetime.strptime(date, "%Y-%m-%d").date(), as a day number
strptime(date) == CHOOSE i \in 1..Len(Calendar) : Calendar[i] = date

\* entry.get('date', '')
entry_date(entry) == IF "date" \in DOMAIN entry THEN entry["date"] ELSE ""

\* list.sort(reverse=True) on days
RECURSIVE insert_desc(_, _)
insert_desc(x, s) ==
    IF s = <<>> THEN <<x>>
    ELSE IF x >= Head(s) THEN <<x>> \o s
    ELSE <<Head(s)>> \o insert_desc(x, Tail(s))

RECURSIVE sort_desc(_)
sort_desc(s) == IF s = <<>> THEN <<>> ELSE insert_desc(Head(s), sort_desc(Tail(s)))

\* lines 173-178: the loop from index i on
RECURSIVE count_streak(_, _, _)
count_streak(date_objects, i, streak) ==
    IF i > Len(date_objects) - 1 THEN streak
    ELSE IF date_objects[i] - 1 = date_objects[i + 1]
         THEN count_streak(date_objects, i + 1, streak + 1)
         ELSE streak

\* lines 142-180
get_streak_days(entries) ==
    IF entries = <<>> THEN 0
    ELSE LET IsValid(e) == validate_date_format(entry_date(e))
             valid == SelectSeq(entries, IsValid)
             date_objects == sort_desc([i \in 1..Len(valid) |->
                                           strptime(entry_date(valid[i]))])
         IN  IF valid = <<>> THEN 0
             ELSE IF date_objects[1] # strptime(StreakToday) THEN 0
             ELSE count_streak(date_objects, 1, 1)

StreakEntries == {EmptyDict} \cup {[k \in {"date"} |-> d] : d \in DateStrings}
StreakArguments == UNION {[1..n -> StreakEntries] : n \in 0..MaxStreakEntries}

not_stats_vars ==
    <<session_vars, store_call, wellness_vars, stress_vars, llm_vars,
      privacy_vars>>

StreakInit ==
    /\ streak_call \in {[pc |-> "input", journal_entries |-> es] :
                          es \in StreakArguments}
    /\ meditation_call = [pc |-> "none"]
    /\ mood_call = [pc |-> "none"]
    /\ SessionInit /\ StoreIdle /\ WellnessIdle /\ StressIdle /\ LlmIdle
    /\ PrivacyIdle

GetStreakDays ==
    /\ streak_call.pc = "input"
    /\ streak_call' = [pc |-> "done",
                       journal_entries |-> streak_call.journal_entries,
                       ret |-> get_streak_days(streak_call.journal_entries)]
    /\ UNCHANGED <<meditation_call, mood_call, not_stats_vars>>

StreakNext == GetStreakDays

SpecStreak == StreakInit /\ [][StreakNext]_vars

(***************************************************************************)
(* zen_garden.get_meditation_stats, on the sessions that                    *)
(* record_meditation_session recorded: each has a date, none in the future. *)
(***************************************************************************)
MaxSessions == 3     \* sessions in garden_data['meditation_sessions']

\* sorted(sessions, key=lambda x: x.get("date", ""), reverse=True): stable,
\* the newest date first
RECURSIVE insert_session(_, _)
insert_session(x, s) ==
    IF s = <<>> THEN <<x>>
    ELSE IF strptime(x.date) >= strptime(Head(s).date) THEN <<x>> \o s
    ELSE <<Head(s)>> \o insert_session(x, Tail(s))

RECURSIVE sorted_by_date(_)
sorted_by_date(s) ==
    IF s = <<>> THEN <<>> ELSE insert_session(Head(s), sorted_by_date(Tail(s)))

\* lines 104-109: the loop over sorted(dates, reverse=True) from index i on
RECURSIVE count_meditation_streak(_, _, _, _)
count_meditation_streak(dates, i, unique_dates, streak) ==
    IF i > Len(dates) THEN streak
    ELSE LET seen == unique_dates \cup {dates[i]}
             prev_date == dates[i] - 1
         IN  IF prev_date \notin seen THEN streak
             ELSE count_meditation_streak(dates, i + 1, seen, streak + 1)

MaxOf(s) == CHOOSE x \in {s[i] : i \in 1..Len(s)} : \A i \in 1..Len(s) : s[i] <= x

\* lines 62-121; average_duration is held in tenths
get_meditation_stats(garden_data) ==
    LET sessions == IF "meditation_sessions" \in DOMAIN garden_data
                    THEN garden_data["meditation_sessions"] ELSE <<>>
    IN  IF sessions = <<>>
        THEN [total_sessions |-> 0, total_minutes |-> 0, longest_session |-> 0,
              average_duration |-> 0, streak_days |-> 0, last_session |-> None]
        ELSE LET durations == [i \in 1..Len(sessions) |-> sessions[i].duration_minutes]
                 sorted_sessions == sorted_by_date(sessions)
                 today == strptime(StreakToday)
                 latest_date == strptime(sorted_sessions[1].date)
                 dates == [i \in 1..Len(sorted_sessions) |->
                              strptime(sorted_sessions[i].date)]
                 streak == IF Len(sorted_sessions) > 1
                           THEN IF today - latest_date > 1 THEN 0
                                ELSE count_meditation_streak(sort_desc(dates), 1, {}, 1)
                           ELSE 1
             IN  [total_sessions |-> Len(sessions),
                  total_minutes |-> SumSeq(durations),
                  longest_session |-> MaxOf(durations),
                  average_duration |-> Round(10 * SumSeq(durations), Len(sessions)),
                  streak_days |-> streak,
                  last_session |-> sorted_sessions[1].date]

\* What record_meditation_session appends on the day `date`
RecordedSessions ==
    {[date |-> Calendar[i], duration_minutes |-> m, notes |-> ""] :
        i \in 1..strptime(StreakToday), m \in MeditationDurations}

GardenArguments ==
    {[k \in {"sand_pattern"} |-> "waves"]}
    \cup {[sand_pattern |-> "waves", meditation_sessions |-> ss] :
             ss \in UNION {[1..n -> RecordedSessions] : n \in 0..MaxSessions}}

MeditationInit ==
    /\ meditation_call \in {[pc |-> "input", garden_data |-> g] :
                              g \in GardenArguments}
    /\ streak_call = [pc |-> "none"]
    /\ mood_call = [pc |-> "none"]
    /\ SessionInit /\ StoreIdle /\ WellnessIdle /\ StressIdle /\ LlmIdle
    /\ PrivacyIdle

GetMeditationStats ==
    /\ meditation_call.pc = "input"
    /\ meditation_call' = [pc |-> "done",
                           garden_data |-> meditation_call.garden_data,
                           ret |-> get_meditation_stats(meditation_call.garden_data)]
    /\ UNCHANGED <<streak_call, mood_call, not_stats_vars>>

MeditationNext == GetMeditationStats

SpecMeditation == MeditationInit /\ [][MeditationNext]_vars

(***************************************************************************)
(* ml_models.analyze_mood_patterns.                                        *)
(*                                                                         *)
(* np.corrcoef is computed exactly from integer sums: with n values,       *)
(* cov = n*Sxy - Sx*Sy and var = n*Sxx - Sx*Sx, r = cov / sqrt(varx*vary), *)
(* nan when a variance is 0.  An insight is held as a short name of its    *)
(* sentence.                                                               *)
(***************************************************************************)
MaxMood == 3         \* journal entries, and wearable records, of one call

Dot(x, y) == SumSeq([i \in 1..Len(x) |-> x[i] * y[i]])

\* lines 236-257: "pos" / "neg" when |r| > threshold10 / 10, else "none"
calculate_correlation(x, y, threshold10) ==
    IF Len(x) # Len(y) \/ Len(x) < 2 THEN "none"
    ELSE LET n == Len(x)
             cov == n * Dot(x, y) - SumSeq(x) * SumSeq(y)
             varx == n * Dot(x, x) - SumSeq(x) * SumSeq(x)
             vary == n * Dot(y, y) - SumSeq(y) * SumSeq(y)
         IN  IF varx * vary = 0 THEN "none"
             ELSE IF 100 * cov * cov > threshold10 * threshold10 * varx * vary
                  THEN (IF cov > 0 THEN "pos" ELSE "neg")
                  ELSE "none"

\* lines 28-36: next(w for w in wearable_data if w.get('date') == entry_date)
matching_wearable(wearable, date) ==
    LET hits == {i \in 1..Len(wearable) : wearable[i].date = date}
    IN  IF hits = {} THEN Nothing
        ELSE Some(wearable[CHOOSE i \in hits : \A j \in hits : i <= j])

\* lines 25-51
RECURSIVE matched_data(_, _)
matched_data(journal, wearable) ==
    IF journal = <<>> THEN <<>>
    ELSE LET entry == Head(journal)
             w == matching_wearable(wearable, entry.date)
         IN  (IF entry.date # "" /\ w # Nothing
              THEN <<[date |-> entry.date, mood_score |-> entry.mood_score,
                      stress_level |-> entry.stress_level,
                      activities |-> entry.activities,
                      sleep_hours |-> w[1].sleep_hours,
                      avg_heart_rate |-> w[1].avg_heart_rate,
                      steps |-> w[1].steps]>>
              ELSE <<>>)
             \o matched_data(Tail(journal), wearable)

\* lines 94-104 and 106-116: sum(a)/len(a) > sum(b)/len(b) + 1
MeanExceedsByOne(a, b) ==
    SumSeq(a) * Len(b) > SumSeq(b) * Len(a) + Len(a) * Len(b)

\* lines 54-116: the insights of the pattern analysis
pattern_insights(md) ==
    LET sleep_hours == [i \in 1..Len(md) |-> md[i].sleep_hours]
        mood == [i \in 1..Len(md) |-> md[i].mood_score]
        steps == [i \in 1..Len(md) |-> md[i].steps]
        hr == [i \in 1..Len(md) |-> md[i].avg_heart_rate]
        stress == [i \in 1..Len(md) |-> md[i].stress_level]
        sleep_mood_corr == calculate_correlation(sleep_hours, mood, 4)
        activity_mood_corr == calculate_correlation(steps, mood, 4)
        hr_stress_corr == calculate_correlation(hr, stress, 3)
        Exercise(d) == d.activities.exercise
        NoExercise(d) == ~d.activities.exercise
        Meditation(d) == d.activities.meditation
        NoMeditation(d) == ~d.activities.meditation
        exercise_days == SelectSeq(md, Exercise)
        non_exercise_days == SelectSeq(md, NoExercise)
        meditation_days == SelectSeq(md, Meditation)
        non_meditation_days == SelectSeq(md, NoMeditation)
    IN  (IF sleep_mood_corr = "none" THEN <<>> ELSE <<"sleep_mood_" \o sleep_mood_corr>>)
        \o (IF activity_mood_corr = "none" THEN <<>>
            ELSE <<"activity_mood_" \o activity_mood_corr>>)
        \o (IF hr_stress_corr = "none" THEN <<>> ELSE <<"hr_stress_" \o hr_stress_corr>>)
        \o (IF /\ exercise_days # <<>> /\ non_exercise_days # <<>>
               /\ MeanExceedsByOne(
                      [i \in 1..Len(exercise_days) |-> exercise_days[i].mood_score],
                      [i \in 1..Len(non_exercise_days) |->
                          non_exercise_days[i].mood_score])
            THEN <<"exercise_mood">> ELSE <<>>)
        \o (IF /\ meditation_days # <<>> /\ non_meditation_days # <<>>
               /\ MeanExceedsByOne(
                      [i \in 1..Len(non_meditation_days) |->
                          non_meditation_days[i].stress_level],
                      [i \in 1..Len(meditation_days) |->
                          meditation_days[i].stress_level])
            THEN <<"meditation_stress">> ELSE <<>>)

\* lines 21-23 with `and` in place of `or`
enough_data_either(journal, wearable) == ~(Len(journal) < 3 /\ Len(wearable) < 3)

\* lines 21-23: the test that lets the analysis run
enough_data(journal, wearable) == ~(Len(journal) < 3 \/ Len(wearable) < 3)

\* lines 6-118; correlations: the calculate_correlation calls made
analyze_mood_patterns(journal, wearable) ==
    IF ~enough_data(journal, wearable)
    THEN [insights |-> <<"not_enough_data">>, correlations |-> 0]
    ELSE LET md == matched_data(journal, wearable)
             found == IF Len(md) >= 3 THEN pattern_insights(md) ELSE <<>>
         IN  [insights |-> IF Len(found) < 2
                           THEN found \o <<"continue_tracking", "consistent_routines">>
                           ELSE found,
              correlations |-> IF Len(md) >= 3 THEN 3 ELSE 0]

JournalProfiles ==
    {[mood_score |-> 8, stress_level |-> 2,
      activities |-> [exercise |-> TRUE, meditation |-> TRUE]],
     [mood_score |-> 3, stress_level |-> 7,
      activities |-> [exercise |-> FALSE, meditation |-> FALSE]],
     [mood_score |-> 5, stress_level |-> 5,
      activities |-> [exercise |-> TRUE, meditation |-> FALSE]]}

WearableProfiles ==
    {[sleep_hours |-> 8, steps |-> 90, avg_heart_rate |-> 60],
     [sleep_hours |-> 5, steps |-> 20, avg_heart_rate |-> 85]}

\* Entry i is dated day i; a wearable record is dated day i or not at all
MoodJournals ==
    UNION {{[i \in 1..n |-> [date |-> Calendar[i]] @@ p[i]] :
               p \in [1..n -> JournalProfiles]} : n \in 0..MaxMood}

MoodWearables ==
    UNION {{[i \in 1..n |-> [date |-> IF dated[i] THEN Calendar[i] ELSE ""] @@ p[i]] :
               p \in [1..n -> WearableProfiles], dated \in [1..n -> BOOLEAN]} :
           n \in 0..MaxMood}

MoodInit ==
    /\ mood_call \in {[pc |-> "input", journal_entries |-> j, wearable_data |-> w] :
                        j \in MoodJournals, w \in MoodWearables}
    /\ streak_call = [pc |-> "none"]
    /\ meditation_call = [pc |-> "none"]
    /\ SessionInit /\ StoreIdle /\ WellnessIdle /\ StressIdle /\ LlmIdle
    /\ PrivacyIdle

AnalyzeMoodPatterns ==
    /\ mood_call.pc = "input"
    /\ mood_call' = [pc |-> "done",
                     journal_entries |-> mood_call.journal_entries,
                     wearable_data |-> mood_call.wearable_data,
                     ret |-> analyze_mood_patterns(mood_call.journal_entries,
                                                   mood_call.wearable_data)]
    /\ UNCHANGED <<streak_call, meditation_call, not_stats_vars>>

MoodNext == AnalyzeMoodPatterns

SpecMood == MoodInit /\ [][MoodNext]_vars

(***************************************************************************)
(* Claims                                                                  *)
(***************************************************************************)

\* C5: after a Logout followed by a Login with the same username, the
\* session's journal entries, wearable data, coping strategies and coaching
\* history are the ones the user had when logging out.
C5_LogoutLoginRestores ==
    (last_action = "login" /\ logout_data.user = user_id) =>
        /\ journal_entries = logout_data.data.journal_entries
        /\ wearable_data = logout_data.data.wearable_data
        /\ coping_strategies = logout_data.data.coping_strategies
        /\ coaching_history = logout_data.data.coaching_history

\* C6: save_user_data(u, d) returns True and leaves the records of every
\* other user id as they were, and a load_user_data(u) that follows it
\* returns d.
C6_SaveThenLoad ==
    /\ store_call.op = "save" =>
          /\ store_call.ret = TRUE
          /\ DOMAIN user_data_store \ {store_call.uid}
                = DOMAIN store_call.before \ {store_call.uid}
          /\ \A v \in DOMAIN store_call.before \ {store_call.uid} :
                user_data_store[v] = store_call.before[v]
    /\ (store_call.op = "load" /\ store_call.after_save
            /\ store_call.saved_uid = store_call.uid) =>
          store_call.ret = Some(store_call.saved_data)

\* C6 witness: a load that follows a save of a non-empty record for the same
\* user, made while another user's record is in the store.
C6_Witness ==
    /\ store_call.op = "load"
    /\ store_call.after_save
    /\ store_call.saved_uid = store_call.uid
    /\ DOMAIN store_call.saved_data # {}
    /\ DOMAIN user_data_store \ {store_call.uid} # {}

\* C7: load_user_data returns None for a user id that has no record in the
\* store, and the stored record otherwise.
C7_LoadMissingIsNone ==
    store_call.op = "load" =>
        IF store_call.uid \in DOMAIN store_call.before
        THEN store_call.ret = Some(store_call.before[store_call.uid])
        ELSE store_call.ret = Nothing

\* C1: for every input record, calculate_wellness_score returns a value in
\* the range 0..100, also when stress_score, body_battery or recovery_score
\* lie outside 0..100.
C1_ScoreClamped ==
    wellness.pc = "done" => wellness.score \in 0..100

\* C2: for every latest_journal and latest_wearable (None, empty, or with any
\* subset of the optional fields), predict_stress_level returns an integer
\* predicted_stress_level in the range 1..10.
C2_StressInRange ==
    prediction.pc = "done" => prediction.result.predicted_stress_level \in 1..10

\* C2 witness: a prediction whose base_stress rounds to less than 1, so that
\* the clamp decides the result.
C2_Witness ==
    /\ prediction.pc = "done"
    /\ Round(prediction.base2, 2) < 1
    /\ prediction.result.predicted_stress_level = 1

\* C3: whenever the external LLM call fails, the LLM-backed operation returns
\* its fallback value to the caller and propagates no exception.
C3_FailureReturnsFallback ==
    (llm_call.op # "none" /\ llm_call.result.failures > 0) =>
        /\ llm_call.result.kind = "return"
        /\ llm_call.result.fallback

\* C4: one invocation of an LLM-backed operation issues at most one
\* chat-completion call, whether the call succeeds or fails.
C4_AtMostOneCall ==
    llm_call.op # "none" => llm_call.result.calls <= 1

\* C4 witness: openai_helper.generate_coping_strategies, whose LLM call (made
\* by openai_integration) failed and whose own except branch ran.
C4_Witness ==
    /\ llm_call.op = "openai_helper.generate_coping_strategies"
    /\ llm_call.result.failures = 1
    /\ llm_call.result.calls = 1
    /\ llm_call.result.log # <<>>

\* C8: for a dictionary d without the key '_would_be_encrypted',
\* decrypt_data(encrypt_data(d)) has exactly the keys and values d had, and
\* decrypt_data leaves the dictionary it is given as it was.
C8_EncryptDecryptRoundTrip ==
    /\ (/\ privacy_call.op = "decrypt_data(encrypt_data)"
        /\ Flag \notin DOMAIN privacy_call.before[privacy_call.arg])
           => heap[privacy_call.ret] = privacy_call.before[privacy_call.arg]
    /\ privacy_call.op = "decrypt_data"
           => \A r \in Refs(privacy_call.before) : heap[r] = privacy_call.before[r]

\* C8 witness: a journal entry with text and sentiment and without the flag
\* went through encrypt_data, which flagged it, and then decrypt_data.
C8_Witness ==
    /\ privacy_call.op = "decrypt_data(encrypt_data)"
    /\ {"content", "sentiment"} \subseteq DOMAIN privacy_call.before[privacy_call.arg]
    /\ Flag \notin DOMAIN privacy_call.before[privacy_call.arg]
    /\ Flag \in DOMAIN heap[privacy_call.arg]
    /\ privacy_call.ret # privacy_call.arg

\* C9: the keys of anonymize_data's result are among the eight safe metric
\* keys and 'anonymized_id', so no identifier or free text is in it, and the
\* dictionary it was given is unchanged.
C9_AnonymizedKeysSafe ==
    privacy_call.op = "anonymize_data" =>
        /\ DOMAIN heap[privacy_call.ret] \subseteq safe_keys \cup {"anonymized_id"}
        /\ DOMAIN heap[privacy_call.ret] \cap (IdentifierKeys \cup TextKeys) = {}
        /\ \A r \in Refs(privacy_call.before) : heap[r] = privacy_call.before[r]

\* C9 witness: a dictionary holding identifiers, free text, a date and a safe
\* metric was anonymized; the metric and the id are what came back.
C9_Witness ==
    /\ privacy_call.op = "anonymize_data"
    /\ IdentifierKeys \cup TextKeys \cup {"date", "mood_score"}
           \subseteq DOMAIN privacy_call.before[privacy_call.arg]
    /\ DOMAIN heap[privacy_call.ret] = {"mood_score", "anonymized_id"}

JournalItems(export) ==
    UNION {{c.items[i] : i \in 1..Len(c.items)} :
              c \in {export.data_categories[j] :
                        j \in {j \in 1..Len(export.data_categories) :
                                 export.data_categories[j].category
                                     = "Journal Entries"}}}

\* C10: create_data_export with include_sensitive false gives journal items
\* without 'sentiment' and without '_would_be_encrypted', and the entries in
\* user_data are as they were, sentiment and flag included.
C10_ExportStripsCopies ==
    (privacy_call.op = "create_data_export" /\ ~privacy_call.include_sensitive) =>
        /\ \A i \in JournalItems(privacy_call.ret) :
               DOMAIN heap[i] \cap {"sentiment", Flag} = {}
        /\ \A r \in Refs(privacy_call.before) : heap[r] = privacy_call.before[r]

\* C10 witness: two stored entries, one of them with sentiment and flag, were
\* exported without sensitive data and the stored one still has both.
C10_Witness ==
    /\ privacy_call.op = "create_data_export"
    /\ ~privacy_call.include_sensitive
    /\ "journal_entries" \in DOMAIN privacy_call.user_data
    /\ privacy_call.user_data["journal_entries"] = <<1, 2>>
    /\ {"sentiment", Flag} \subseteq DOMAIN privacy_call.before[1]
    /\ {"sentiment", Flag} \subseteq DOMAIN heap[1]
    /\ Cardinality(JournalItems(privacy_call.ret)) = 2

\* The days on which at least one entry has a valid date
JournaledDays(entries) ==
    {strptime(entry_date(entries[i])) :
        i \in {i \in 1..Len(entries) : validate_date_format(entry_date(entries[i]))}}

\* The length of the run of consecutive days in `days` that ends on `day`
RECURSIVE RunEndingOn(_, _)
RunEndingOn(days, day) ==
    IF day \in days THEN 1 + RunEndingOn(days, day - 1) ELSE 0

\* C11: get_streak_days returns the length of the run of consecutive days,
\* ending today, that each have at least one validly dated entry (0 when no
\* entry is dated today), also when several entries share a date.
C11_StreakIsRunEndingToday ==
    streak_call.pc = "done" =>
        streak_call.ret = RunEndingOn(JournaledDays(streak_call.journal_entries),
                                      strptime(StreakToday))

\* The days of the sessions of a garden that has some
SessionDays(garden_data) ==
    {strptime(garden_data["meditation_sessions"][i].date) :
        i \in 1..Len(garden_data["meditation_sessions"])}

LatestDay(days) == CHOOSE d \in days : \A e \in days : e <= d

\* C12: for a non-empty list of recorded sessions, streak_days is the number
\* of consecutive days with a session counted back from the most recent
\* session day, and 0 when that day is neither today nor yesterday.
C12_MeditationStreak ==
    (/\ meditation_call.pc = "done"
     /\ "meditation_sessions" \in DOMAIN meditation_call.garden_data
     /\ meditation_call.garden_data["meditation_sessions"] # <<>>) =>
        LET days == SessionDays(meditation_call.garden_data)
            latest == LatestDay(days)
        IN  meditation_call.ret.streak_days =
                IF strptime(StreakToday) - latest > 1 THEN 0
                ELSE RunEndingOn(days, latest)

\* C13: for every list of focus areas and every time_available, values below
\* 5 included, generate_fallback_strategies returns a response that holds at
\* least 2 strategies.
C13_FallbackHasTwoStrategies ==
    llm_call.op = "openai_integration.generate_fallback_strategies" =>
        /\ llm_call.result.kind = "return"
        /\ Len(llm_call.result.value) >= 2

\* C14: calculate_wellness_score returns an integer from 1 to 100 whenever a
\* score component (sleep, activity, heart, stress) can be computed, and 0
\* only when none can; so process_wearable_data leaves 'wellness_score' out
\* only for records without any component.
C14_ScorePositiveWithComponent ==
    wellness.pc = "done" =>
        /\ wellness.components # <<>> => wellness.score \in 1..100
        /\ wellness.score = 0 => wellness.components = <<>>
        /\ "wellness_score" \notin DOMAIN wellness.processed
               => wellness.components = <<>>

\* C15: given fewer than 3 journal entries or fewer than 3 wearable records,
\* analyze_mood_patterns returns exactly one insight, the not-enough-data
\* message, and computes no correlation.
C15_NotEnoughData ==
    (/\ mood_call.pc = "done"
     /\ \/ Len(mood_call.journal_entries) < 3
        \/ Len(mood_call.wearable_data) < 3) =>
        /\ mood_call.ret.insights = <<"not_enough_data">>
        /\ mood_call.ret.correlations = 0

\* C15 witness: three wearable records but only two journal entries, and the
\* single insight came back.
C15_Witness ==
    /\ mood_call.pc = "done"
    /\ Len(mood_call.journal_entries) = 2
    /\ Len(mood_call.wearable_data) = 3
    /\ Len(mood_call.ret.insights) = 1

\* C16: a Login attempt with an empty username or an empty password leaves
\* user_authenticated false, user_id None and the user data store unchanged.
C16_EmptyLoginRejected ==
    [][\A username \in Usernames, password \in Passwords :
          (Login(username, password) /\ (username = "" \/ password = "")) =>
              /\ ~user_authenticated'
              /\ user_id' = None
              /\ user_data_store' = user_data_store]_vars

\* C16 witness: a user had a session, logged out, and the Login attempt that
\* followed was turned down.
C16_Witness ==
    /\ last_action = "login_error"
    /\ logout_data.user = "alice"
    /\ ~user_authenticated

MainHandler ==
    \/ \E c \in JournalContents : SaveJournalEntry(c)
    \/ ImportWearableData
    \/ \E f \in FocusChoices : GenerateStrategies(f, "strategies")
    \/ StartCoachingSession("advice")
    \/ \E m \in MeditationDurations : StartGuidedMeditation(m)
    \/ SaveGardenChanges

\* C17: in every reachable state user_authenticated implies that user_id is
\* a non-empty username, and the handlers that change journal entries,
\* wearable data, coping strategies, coaching history or the zen garden run
\* only when user_authenticated is true.
C17_AuthenticatedHasUser ==
    /\ [](user_authenticated => TruthyStr(user_id))
    /\ [][MainHandler => user_authenticated]_vars

\* C17 witness: an authenticated user's handler has saved a journal entry.
C17_Witness ==
    /\ user_authenticated
    /\ user_id = "bob"
    /\ last_action = "main"
    /\ journal_entries # <<>>

ComponentScores(cs) == {cs[i].score : i \in 1..Len(cs)}

\* C18: the wellness score is the weighted average over the components that
\* are present: it equals the rounded component score when one component is
\* present, and otherwise lies between the smallest and the largest present
\* component score, up to rounding.
C18_WeightedAverage ==
    (wellness.pc = "done" /\ wellness.components # <<>>) =>
        LET scores == ComponentScores(wellness.components)
            lowest == CHOOSE x \in scores : \A y \in scores : x <= y
            highest == CHOOSE x \in scores : \A y \in scores : y <= x
        IN  /\ Len(wellness.components) = 1
                => wellness.score = Round(wellness.components[1].score, Scale)
            /\ Scale * wellness.score > lowest - Scale
            /\ Scale * wellness.score < highest + Scale

\* C19: every failed external LLM call is logged to standard output before
\* the fallback is returned, in each LLM-backed operation of ai_coaching,
\* openai_helper and openai_integration.
C19_FailureIsLogged ==
    (llm_call.op # "none" /\ llm_call.result.failures > 0) =>
        llm_call.result.log # <<>>
====
